---------------------------- MODULE Spec2Model ----------------------------
(***************************************************************************)
(* Model of the live-transcription page of quipu-cms (src/unnamed/part_001)*)
(* : the EventSource handlers of startStreaming, the async function        *)
(* handleTurnEvent with its two `await translate(...)` suspension points,  *)
(* and the operations stopStreaming, togglePause and clearTranscript; and   *)
(* of the audio recorder component (src/components/Recorder.vue): the      *)
(* capture controls, cleanup, the WebSocket to the transcription backend   *)
(* and the audio processor that feeds it; and of the sample encoder        *)
(* float32To16LEPCM (src/lib/pcm.ts); and of the two Pinia stores of       *)
(* src/stores/auth.ts, the editor store with its undo history and the auth *)
(* store, with User.canEdit of src/models/index.ts.  The components share  *)
(* no state; `mounted` says which of them a behaviour exercises.           *)
(*                                                                         *)
(* JavaScript is single-threaded: a handler runs without interruption      *)
(* until it reaches an `await`; there it is suspended and any other        *)
(* handler may run.  Every action below is one such uninterrupted run.     *)
(* onmessage is an async function, so the EventSource dispatches the next  *)
(* message while an earlier handleTurnEvent is still awaiting translate.   *)
(*                                                                         *)
(* Not modelled: colorIndex/colorClass, timestamp, streamingUrl and the    *)
(* search stream; of the editor store selectBlock, the preview and panel   *)
(* toggles, getBlockPath and the JSON import/export; of the auth store the *)
(* role getters, hasRole, hasPermission and changePassword (no statement   *)
(* checked here reads them).                                               *)
(***************************************************************************)
EXTENDS Integers, Sequences, FiniteSets, TLC

\* ------------------------------------------------------------------ bounds
\* turn_order of an event ranges over 0..MaxTurn
MaxTurn == 1
\* an event carries at most MaxEventWords words
MaxEventWords == 1
\* Spec: the page dispatches at most MaxEvents stream messages in all
MaxEvents == 2
\* SpecSession, SpecStuck: one streaming session of at most MaxSessionEvents messages
MaxSessionEvents == 3

\* the word texts the recognizer sends
WordTexts == {"A", "B"}

\* languages offered by the page: 'en' switches translation off (line 257)
Languages == {"en", "es"}

Turns == 0..MaxTurn

\* the confidence the recognizer gives a word, in hundredths; the model ties
\* it to the word's text
Confidence(text) == IF text = "A" THEN 90 ELSE 50

\* a Word of src/types/index.ts: its text, its word_is_final flag and its
\* confidence
Word ==
    {[text |-> t, word_is_final |-> f, confidence |-> Confidence(t)] :
        t \in WordTexts, f \in BOOLEAN}

RECURSIVE SeqsUpTo(_, _)
SeqsUpTo(S, n) ==
    IF n = 0 THEN {<< >>}
    ELSE LET shorter == SeqsUpTo(S, n - 1)
         IN  shorter \cup {Append(s, x) : s \in {t \in shorter : Len(t) = n - 1}, x \in S}

\* the Turn messages the stream can carry (TurnEventData)
TurnEventData ==
    [turn_order : Turns, end_of_turn : BOOLEAN, words : SeqsUpTo(Word, MaxEventWords)]

\* -------------------------------------------------------------- variables
VARIABLES
    transcript,        \* ref<TranscriptSegment[]>
    currentTurnWords,  \* ref<string[]>
    currentTurnOrder,  \* ref<number>, -1 when no turn is open
    eventSource,       \* "null" or "open"
    isStreaming,
    isPaused,
    language,          \* ref<string>, v-model of the language Select
    handlers,          \* handleTurnEvent invocations suspended at an await
    streamOrder,       \* history: highest turn_order this stream has sent,
                       \* -1 on a fresh stream, -2 once it sent a lower one
    delivered,         \* history: the number of messages dispatched so far
    arrived,           \* history: the final word texts processed for the open
                       \* turn, repeats included, in order of arrival
    stopped,           \* history: stopStreaming has returned and
                       \* startStreaming was not called since
    finalTexts,        \* history: the word texts received with word_is_final
    skipped,           \* history: the number of unparseable messages skipped
    mounted,           \* "page", "recorder", "lib", "editor" or "auth": what
                       \* is under execution
    refs,              \* Recorder.vue: the refs of the component
    browser,           \* Recorder.vue: the browser objects the component created
    starting,          \* Recorder.vue: startRecording calls awaiting createStream
    enableTranscription, \* Recorder.vue: the prop
    produced,          \* history: the number of audio frames produced
    sent,              \* history: the audio frames transmitted, in order
    dropped,           \* history: the frames produced while no channel was open
    emitted,           \* history: the last error event the recorder emitted
    pcmCalls,          \* history: the calls of float32To16LEPCM made so far,
                       \* each with its input block and the bytes it returned
    editor,            \* editor store: blocks, selectedBlockId, history.past
                       \* and history.future
    lastSave,          \* history: the blocks before and after the last
                       \* history-saving action, and whether undo, then redo
                       \* followed it directly
    saves,             \* history: the number of history-saving actions so far
    auth,              \* auth store: user, token, isAuthenticated, isLoading
    pending,           \* auth store: the async actions suspended at an await
    loginOutcome,      \* history: how the last login settled
    answered           \* history: the last canEdit call and what it returned

aggregator == <<transcript, currentTurnWords, currentTurnOrder>>

recorderVars == <<refs, browser, starting, enableTranscription, produced, sent,
                  dropped, emitted>>

\* what an operation of the page leaves alone besides the page's own refs
editorVars == <<editor, lastSave, saves>>

authVars == <<auth, pending, loginOutcome, answered>>

storeVars == <<editorVars, authVars>>

pageRest == <<skipped, mounted, recorderVars, pcmCalls, storeVars>>

pageVars == <<transcript, currentTurnWords, currentTurnOrder, eventSource,
              isStreaming, isPaused, language, handlers, streamOrder, delivered,
              arrived, stopped, finalTexts, skipped>>

vars == <<pageVars, mounted, recorderVars, pcmCalls, storeVars>>

\* ----------------------------------------------------------- pure helpers
\* Array.prototype.includes
Includes(ws, t) == \E i \in 1..Len(ws) : ws[i] = t

\* Array.prototype.join(' ')
RECURSIVE Join(_)
Join(ws) ==
    IF Len(ws) = 0 THEN ""
    ELSE IF Len(ws) = 1 THEN ws[1]
    ELSE ws[1] \o " " \o Join(Tail(ws))

\* the value translate() resolves with: the response text, or, on a failed
\* request, the string `Translation Error: ${text}` (it never rejects)
TranslateResult(ok, text) ==
    IF ok THEN [kind |-> "translated", of |-> text]
    ELSE [kind |-> "error", of |-> "Translation Error: " \o text]

\* translated_text: undefined
Undefined == [kind |-> "undefined", of |-> ""]

\* the final word texts of an event, in order
RECURSIVE Finals(_)
Finals(newWords) ==
    IF newWords = << >> THEN << >>
    ELSE (IF Head(newWords).word_is_final THEN <<Head(newWords).text>> ELSE << >>)
         \o Finals(Tail(newWords))

\* lines 277-281 without the includes test
AccumulateNoDedup(cw, newWords) ==
    LET RECURSIVE go(_, _)
        go(acc, i) ==
            IF i > Len(newWords) THEN acc
            ELSE go(IF newWords[i].word_is_final
                    THEN Append(acc, newWords[i].text) ELSE acc, i + 1)
    IN  go(cw, 1)

\* lines 277-281: newWords.forEach(word => { if (word.word_is_final &&
\* !currentTurnWords.value.includes(word.text)) push(word.text) })
Accumulate(cw, newWords) ==
    LET RECURSIVE go(_, _)
        go(acc, i) ==
            IF i > Len(newWords) THEN acc
            ELSE go(IF newWords[i].word_is_final /\ ~Includes(acc, newWords[i].text)
                    THEN Append(acc, newWords[i].text) ELSE acc, i + 1)
    IN  go(cw, 1)


\* ------------------------------------------------- handleTurnEvent, in parts
\* history of a segment (and of the invocation that pushes it):
\*   of_turn     the open turn order when text was joined
\*   event_turn  the turn_order of the event being handled
\*   via         "jump" (lines 252-270) or "final" (lines 283-302)
\*   alone       no other invocation was suspended when the event arrived
\*   stale       the invocation started before the last reset
\*   arrived     the final word texts processed for the turn when text was joined
Hist(ofTurn, data, via, alone, stale, arr) ==
    [of_turn |-> ofTurn, event_turn |-> data.turn_order, via |-> via,
     alone |-> alone, stale |-> stale, arrived |-> arr]

\* lines 249-251: the sum of the confidences of the event's words divided
\* by their number, as the fraction num/den; 0 for an event without words
AvgConfidence(newWords) ==
    LET RECURSIVE sum(_)
        sum(i) == IF i = 0 THEN 0 ELSE sum(i - 1) + newWords[i].confidence
    IN  IF Len(newWords) > 0
        THEN [num |-> sum(Len(newWords)), den |-> Len(newWords)]
        ELSE [num |-> 0, den |-> 1]

\* a TranscriptSegment as pushed at lines 261-269 and 291-299
Segment(text, turn, confidence, words, translated, hist) ==
    [text |-> text, turn |-> turn, confidence |-> confidence, words |-> words,
     translated_text |-> translated, hist |-> hist]

\* an invocation suspended at `await translate(...)`: pc "jump" is line 258,
\* pc "final" is line 288; text is the joined text it captured before the await
Suspended(pc, data, text, hist) ==
    [pc |-> pc, data |-> data, text |-> text, hist |-> hist]

\* what one uninterrupted run leaves: the three refs, the history of arrivals,
\* and the suspension it ended in (a sequence of zero or one Suspended)
Outcome(tr, cw, cto, arr, susp) ==
    [transcript |-> tr, currentTurnWords |-> cw, currentTurnOrder |-> cto,
     arrived |-> arr, susp |-> susp]

\* lines 291-301: push the segment of the explicit close with the open turn
\* order as it is now, then reset the open words and the open turn order
PushFinal(tr, cto, data, text, translated, hist) ==
    Outcome(Append(tr, Segment(text, cto, AvgConfidence(data.words), data.words,
                               translated, hist)),
            << >>, -1, << >>, << >>)

\* lines 283-302: the explicit close
CloseIfEnd(tr, cw, cto, arr, data, lang, alone, stale) ==
    IF data.end_of_turn /\ Len(cw) > 0
    THEN LET hist == Hist(cto, data, "final", alone, stale, arr)
         IN  IF lang # "en"
             THEN Outcome(tr, cw, cto, arr, <<Suspended("final", data, Join(cw), hist)>>)
             ELSE PushFinal(tr, cto, data, Join(cw), Undefined, hist)
    ELSE Outcome(tr, cw, cto, arr, << >>)

\* lines 277-302: word accumulation, then the explicit close
FromAccumulate(tr, cw, cto, arr, data, lang, alone, stale) ==
    CloseIfEnd(tr, Accumulate(cw, data.words), cto, arr \o Finals(data.words),
               data, lang, alone, stale)

\* lines 272-302: the open turn becomes the event's, its words start empty
AfterBoundary(tr, data, lang, alone, stale) ==
    FromAccumulate(tr, << >>, data.turn_order, << >>, data, lang, alone, stale)

\* lines 261-269 with unshift for push
PushJumpInFront(tr, cto, data, text, translated, hist) ==
    <<Segment(text, cto, AvgConfidence(data.words), << >>, translated, hist)>> \o tr

\* lines 261-269: push the segment of the implicitly closed turn with the
\* open turn order as it is now and the average confidence of the words of
\* the event being handled
PushJump(tr, cto, data, text, translated, hist) ==
    Append(tr, Segment(text, cto, AvgConfidence(data.words), << >>, translated, hist))

\* lines 247-303 without the turn_order test of line 252: every event is
\* taken for a turn boundary
HandleTurnEventAlwaysBoundary(tr, cw, cto, arr, data, lang, alone) ==
    IF Len(cw) > 0
    THEN LET hist == Hist(cto, data, "jump", alone, FALSE, arr)
         IN  IF lang # "en"
             THEN Outcome(tr, cw, cto, arr, <<Suspended("jump", data, Join(cw), hist)>>)
             ELSE AfterBoundary(PushJump(tr, cto, data, Join(cw), Undefined, hist),
                                data, lang, alone, FALSE)
    ELSE AfterBoundary(tr, data, lang, alone, FALSE)

\* lines 247-303 from the call to the first await or to the end
HandleTurnEvent(tr, cw, cto, arr, data, lang, alone) ==
    IF data.turn_order # cto
    THEN IF Len(cw) > 0
         THEN LET hist == Hist(cto, data, "jump", alone, FALSE, arr)
              IN  IF lang # "en"
                  THEN Outcome(tr, cw, cto, arr, <<Suspended("jump", data, Join(cw), hist)>>)
                  ELSE AfterBoundary(PushJump(tr, cto, data, Join(cw), Undefined, hist),
                                     data, lang, alone, FALSE)
         ELSE AfterBoundary(tr, data, lang, alone, FALSE)
    ELSE FromAccumulate(tr, cw, cto, arr, data, lang, alone, FALSE)

\* the continuation of a suspended invocation once translate has resolved
\* with `translated`: lines 261-302 from pc "jump", lines 291-302 from "final".
\* Both read currentTurnOrder.value when they push, after the await.
Resume(tr, cw, cto, arr, h, translated, lang) ==
    IF h.pc = "jump"
    THEN AfterBoundary(PushJump(tr, cto, h.data, h.text, translated, h.hist),
                       h.data, lang, h.hist.alone, h.hist.stale)
    ELSE PushFinal(tr, cto, h.data, h.text, translated, h.hist)

\* history: every invocation pending at a reset started before it
MarkStale(hs) == [i \in 1..Len(hs) |-> [hs[i] EXCEPT !.hist.stale = TRUE]]

\* history: the stream's turn_order so far
NextStreamOrder(so, data) ==
    IF so = -2 \/ data.turn_order < so THEN -2 ELSE data.turn_order

RemoveAt(s, i) == SubSeq(s, 1, i - 1) \o SubSeq(s, i + 1, Len(s))

\* ------------------------------------------------------------ Recorder.vue
\* startRecording gets as far as creating a stream at most MaxStarts times
MaxStarts == 2
\* the audio processor produces at most MaxFrames frames
MaxFrames == 2
\* SpecClock: the recording clock is followed up to MaxTime seconds
MaxTime == 2

\* one session per stream created: stream k, MediaRecorder k and, with
\* transcription enabled, WebSocket k and ScriptProcessorNode k
Sessions == 1..MaxStarts

\* the messages the transcription backend sends (lines 101-114): a
\* transcript, an error, or a payload JSON.parse rejects
WsMessages == {"transcript", "error", "malformed"}

\* the refs declared at lines 41-58; 0 stands for null, recordingTimer for
\* "an interval id is held"
RefsInit ==
    [hasPermission |-> FALSE, selectedDeviceId |-> "", isRecording |-> FALSE,
     isPaused |-> FALSE, stream |-> 0, recorder |-> 0, websocket |-> 0,
     isTranscribing |-> FALSE, recordingTimer |-> FALSE, processorNode |-> 0,
     transcriptionText |-> "", recordingTime |-> 0]

\* the browser objects: MediaStream (live until its tracks are stopped),
\* MediaRecorder.state, a queued stop event, WebSocket.readyState, the
\* processor node, the number of running intervals, the stop messages sent
\* on each socket; stopRequested is history: stopRecording stopped recorder k
BrowserInit ==
    [created |-> 0,
     stream |-> [k \in Sessions |-> "none"],
     recorder |-> [k \in Sessions |-> "none"],
     stopEvent |-> [k \in Sessions |-> FALSE],
     socket |-> [k \in Sessions |-> "none"],
     processor |-> [k \in Sessions |-> "none"],
     stops |-> [k \in Sessions |-> 0],
     timers |-> 0,
     stopRequested |-> [k \in Sessions |-> FALSE]]

\* the component's refs together with the browser objects
St(r, b) == [refs |-> r, browser |-> b]

\* lines 81-83 without the hasPermission test
canRecordWithoutPermission(r) == r.selectedDeviceId # "" /\ ~r.isRecording /\ ~r.isPaused

\* lines 81-87
canRecord(r) == r.hasPermission /\ r.selectedDeviceId # "" /\ ~r.isRecording /\ ~r.isPaused
canPause(r) == r.isRecording
canResume(r) == r.isPaused
canStop(r) == r.isRecording \/ r.isPaused

\* lines 360-366: recordingTime is set to 0 and a new interval is started;
\* the id held before is overwritten
startTimer(st) ==
    [st EXCEPT !.refs.recordingTime = 0, !.refs.recordingTimer = TRUE,
               !.browser.timers = @ + 1]

\* lines 368-373
stopTimer(st) ==
    IF st.refs.recordingTimer
    THEN [st EXCEPT !.refs.recordingTimer = FALSE, !.browser.timers = @ - 1]
    ELSE st

\* WebSocket.close(): a connecting or open socket starts closing
CloseSocket(readyState) ==
    IF readyState \in {"connecting", "open"} THEN "closing" ELSE readyState

\* lines 129-138 without the close and without clearing the ref
closeWebSocketKeepsChannel(st) ==
    LET k == st.refs.websocket
    IN  IF k = 0 THEN st
        ELSE [st EXCEPT !.browser.stops[k] =
                            IF st.browser.socket[k] = "open" THEN @ + 1 ELSE @,
                        !.refs.isTranscribing = FALSE]

\* lines 129-138
closeWebSocket(st) ==
    LET k == st.refs.websocket
    IN  IF k = 0 THEN st
        ELSE [st EXCEPT !.browser.stops[k] =
                            IF st.browser.socket[k] = "open" THEN @ + 1 ELSE @,
                        !.browser.socket[k] = CloseSocket(@),
                        !.refs.websocket = 0,
                        !.refs.isTranscribing = FALSE]

\* lines 480-483: the tracks of the held stream are stopped; a MediaRecorder
\* whose tracks have all ended becomes inactive and queues its stop event
StopTracks(st) ==
    LET k == st.refs.stream
    IN  IF k = 0 THEN st
        ELSE [st EXCEPT !.browser.stream[k] = "stopped",
                        !.browser.recorder[k] =
                            IF @ \in {"recording", "paused"} THEN "inactive" ELSE @,
                        !.browser.stopEvent[k] =
                            @ \/ st.browser.recorder[k] \in {"recording", "paused"},
                        !.refs.stream = 0]

\* lines 485-488
DisconnectProcessor(st) ==
    LET k == st.refs.processorNode
    IN  IF k = 0 THEN st
        ELSE [st EXCEPT !.browser.processor[k] = "disconnected",
                        !.refs.processorNode = 0]

\* lines 479-509
cleanup(st) == stopTimer(closeWebSocket(DisconnectProcessor(StopTracks(st))))

\* lines 90-127
setupWebSocket(st, k) ==
    [st EXCEPT !.refs.websocket = k, !.browser.socket[k] = "connecting"]

\* lines 198-236
setupRealtimeProcessing(st, k) ==
    [st EXCEPT !.refs.processorNode = k, !.browser.processor[k] = "connected"]

\* lines 380-426: startRecording after createStream returned stream k
StartWithStream(st, k, transcribe) ==
    LET s1 == [st EXCEPT !.refs.stream = k, !.browser.stream[k] = "live",
                         !.browser.created = k]
        s2 == IF transcribe THEN setupRealtimeProcessing(setupWebSocket(s1, k), k) ELSE s1
        s3 == [s2 EXCEPT !.refs.recorder = k, !.browser.recorder[k] = "recording",
                         !.refs.isRecording = TRUE]
    IN  startTimer(s3)

\* line 213 without the readyState test
SendFrameUnguarded(log, readyState, frame) == Append(log, frame)

\* lines 213-227: the frame is sent only on an open socket
SendFrame(log, readyState, frame) ==
    IF readyState = "open" THEN Append(log, frame) ELSE log

\* websocket.value?.readyState
ReadyState(st) ==
    IF st.refs.websocket = 0 THEN "none" ELSE st.browser.socket[st.refs.websocket]

RecorderInit ==
    /\ refs = RefsInit
    /\ browser = BrowserInit
    /\ starting = 0
    /\ produced = 0
    /\ sent = << >>
    /\ dropped = {}
    /\ emitted = ""

\* what an operation of the recorder leaves alone besides refs and browser
recorderRest == <<pageVars, mounted, enableTranscription, pcmCalls, storeVars>>

\* refs and browser after a handler ran
Becomes(st) == refs' = st.refs /\ browser' = st.browser

\* lines 155-174 (with initializeDevices, lines 141-152): the Grant button
\* is rendered only without permission (line 553)
RequestPermission(granted, found) ==
    /\ ~refs.hasPermission
    /\ refs' = [refs EXCEPT !.hasPermission = granted,
                            !.selectedDeviceId =
                                IF granted /\ found /\ @ = "" THEN "mic" ELSE @]
    /\ emitted' = IF granted THEN emitted
                  ELSE "error: Microphone permission denied"
    /\ UNCHANGED <<browser, starting, produced, sent, dropped, recorderRest>>

\* lines 141-152 on a devicechange event (line 529) that brings a microphone
InitializeDevices ==
    /\ refs.selectedDeviceId = ""
    /\ refs' = [refs EXCEPT !.selectedDeviceId = "mic"]
    /\ UNCHANGED <<browser, starting, produced, sent, dropped, emitted, recorderRest>>

\* lines 376-380: startRecording up to `await createStream()`
StartRecording ==
    /\ canRecord(refs)
    /\ starting + browser.created < MaxStarts
    /\ starting' = starting + 1
    /\ UNCHANGED <<refs, browser, produced, sent, dropped, emitted, recorderRest>>

\* lines 380-426: createStream resolves and startRecording runs to its end;
\* with no stream (getUserMedia failed, lines 191-194) it assigns null to
\* stream and returns
CreateStreamResolves(ok) ==
    /\ starting > 0
    /\ starting' = starting - 1
    /\ IF ok
       THEN /\ Becomes(StartWithStream(St(refs, browser), browser.created + 1,
                                       enableTranscription))
            /\ UNCHANGED emitted
       ELSE /\ refs' = [refs EXCEPT !.stream = 0]
            /\ emitted' = "error: Failed to access microphone"
            /\ UNCHANGED browser
    /\ UNCHANGED <<produced, sent, dropped, recorderRest>>

\* lines 434-446; MediaRecorder.pause() throws on an inactive recorder
pauseRecording ==
    /\ canPause(refs) /\ refs.recorder # 0
    /\ browser.recorder[refs.recorder] # "inactive"
    /\ Becomes(stopTimer([St(refs, browser) EXCEPT
                            !.browser.recorder[refs.recorder] = "paused",
                            !.refs.isPaused = TRUE,
                            !.refs.isRecording = FALSE]))
    /\ UNCHANGED <<starting, produced, sent, dropped, emitted, recorderRest>>

\* lines 448-456; MediaRecorder.resume() throws on an inactive recorder
resumeRecording ==
    /\ canResume(refs) /\ refs.recorder # 0
    /\ browser.recorder[refs.recorder] # "inactive"
    /\ Becomes(startTimer([St(refs, browser) EXCEPT
                             !.browser.recorder[refs.recorder] = "recording",
                             !.refs.isPaused = FALSE,
                             !.refs.isRecording = TRUE]))
    /\ UNCHANGED <<starting, produced, sent, dropped, emitted, recorderRest>>

\* lines 458-466 with isPaused left as it is
StopKeepsPaused(st) ==
    LET k == st.refs.recorder
        active == st.browser.recorder[k] # "inactive"
    IN  closeWebSocket(stopTimer(
            [st EXCEPT !.browser.recorder[k] = "inactive",
                       !.browser.stopEvent[k] = @ \/ active,
                       !.browser.stopRequested[k] = @ \/ active,
                       !.refs.isRecording = FALSE]))

\* lines 461-465: MediaRecorder.stop() makes an active recorder inactive
\* and queues its stop event
Stop(st) ==
    LET k == st.refs.recorder
        active == st.browser.recorder[k] # "inactive"
    IN  closeWebSocket(stopTimer(
            [st EXCEPT !.browser.recorder[k] = "inactive",
                       !.browser.stopEvent[k] = @ \/ active,
                       !.browser.stopRequested[k] = @ \/ active,
                       !.refs.isRecording = FALSE,
                       !.refs.isPaused = FALSE]))

\* lines 458-466
stopRecording ==
    /\ canStop(refs) /\ refs.recorder # 0
    /\ Becomes(Stop(St(refs, browser)))
    /\ UNCHANGED <<starting, produced, sent, dropped, emitted, recorderRest>>

\* lines 408-416: recorder k's stop event is dispatched
RecorderOnStop(k) ==
    /\ browser.stopEvent[k]
    /\ Becomes(cleanup([St(refs, browser) EXCEPT !.browser.stopEvent[k] = FALSE]))
    /\ UNCHANGED <<starting, produced, sent, dropped, emitted, recorderRest>>

\* lines 418-421: recorder k fails (the device is lost); the browser makes it
\* inactive, dispatches error and then, depending on the failure, stop
RecorderOnError(k, thenStop) ==
    /\ browser.recorder[k] \in {"recording", "paused"}
    /\ Becomes(cleanup([St(refs, browser) EXCEPT
                           !.browser.recorder[k] = "inactive",
                           !.browser.stopEvent[k] = thenStop]))
    /\ emitted' = "error: Recording error"
    /\ UNCHANGED <<starting, produced, sent, dropped, recorderRest>>

\* lines 468-477 (onUnmounted, lines 519-524, runs the same cleanup)
resetRecording ==
    LET st == [cleanup(St(refs, browser)) EXCEPT !.refs.transcriptionText = "",
                                                 !.refs.recordingTime = 0]
    IN  /\ st # St(refs, browser)
        /\ Becomes(st)
        /\ UNCHANGED <<starting, produced, sent, dropped, emitted, recorderRest>>

\* lines 97-99: socket k opens
WsOnOpen(k) ==
    /\ browser.socket[k] = "connecting"
    /\ browser' = [browser EXCEPT !.socket[k] = "open"]
    /\ refs' = [refs EXCEPT !.isTranscribing = TRUE]
    /\ UNCHANGED <<starting, produced, sent, dropped, emitted, recorderRest>>

\* lines 116-123 followed by a new connection attempt
WsOnErrorReconnects(k) ==
    /\ browser.socket[k] \in {"connecting", "open"}
    /\ browser' = [browser EXCEPT !.socket[k] = "connecting"]
    /\ refs' = [refs EXCEPT !.isTranscribing = FALSE]
    /\ emitted' = "transcriptionError: WebSocket connection error"
    /\ UNCHANGED <<starting, produced, sent, dropped, recorderRest>>

\* lines 116-123: the connection of socket k fails; the browser dispatches
\* error and close and the socket is closed
WsOnError(k) ==
    /\ browser.socket[k] \in {"connecting", "open"}
    /\ browser' = [browser EXCEPT !.socket[k] = "closed"]
    /\ refs' = [refs EXCEPT !.isTranscribing = FALSE]
    /\ emitted' = "transcriptionError: WebSocket connection error"
    /\ UNCHANGED <<starting, produced, sent, dropped, recorderRest>>

\* lines 121-123: socket k is closed, by the backend or after close()
WsOnClose(k) ==
    /\ browser.socket[k] \in {"open", "closing"}
    /\ browser' = [browser EXCEPT !.socket[k] = "closed"]
    /\ refs' = [refs EXCEPT !.isTranscribing = FALSE]
    /\ UNCHANGED <<starting, produced, sent, dropped, emitted, recorderRest>>

\* lines 101-114: a message arrives on socket k
WsOnMessage(k, m) ==
    /\ browser.socket[k] = "open"
    /\ refs' = [refs EXCEPT !.transcriptionText = IF m = "transcript" THEN "text" ELSE @]
    /\ emitted' = CASE m = "transcript" -> emitted
                     [] m = "error" -> "transcriptionError: message"
                     [] m = "malformed" -> "transcriptionError: Failed to parse transcription response"
    /\ UNCHANGED <<browser, starting, produced, sent, dropped, recorderRest>>

\* lines 212-228: processor k hands over a frame of audio
OnAudioProcess(k) ==
    /\ browser.processor[k] = "connected"
    /\ produced < MaxFrames
    /\ produced' = produced + 1
    /\ LET readyState == ReadyState(St(refs, browser))
           frame == [id |-> produced + 1, socket |-> refs.websocket,
                     readyState |-> readyState]
       IN  /\ sent' = SendFrame(sent, readyState, frame)
           /\ dropped' = IF readyState = "open" THEN dropped
                         ELSE dropped \cup {produced + 1}
    /\ UNCHANGED <<refs, browser, starting, emitted, recorderRest>>

\* lines 362-365: a running interval fires
TimerTick ==
    /\ browser.timers > 0
    /\ refs.recordingTime < MaxTime
    /\ refs' = [refs EXCEPT !.recordingTime = @ + 1]
    /\ UNCHANGED <<browser, starting, produced, sent, dropped, emitted, recorderRest>>

\* ---------------------------------------------------------------- actions
\* the refs as declared at lines 49-60
PageInit ==
    /\ transcript = << >>
    /\ currentTurnWords = << >>
    /\ currentTurnOrder = -1
    /\ eventSource = "null"
    /\ isStreaming = FALSE
    /\ isPaused = FALSE
    /\ language = "es"
    /\ handlers = << >>
    /\ streamOrder = -1
    /\ delivered = 0
    /\ arrived = << >>
    /\ stopped = FALSE
    /\ finalTexts = {}
    /\ skipped = 0

\* user.value = null (auth.ts line 8)
NullUser == [id |-> "null", role |-> "null"]

\* auth.ts lines 326-333: the editor store as constructed
EditorInit ==
    /\ editor = [blocks |-> << >>, selectedBlockId |-> "null",
                 past |-> << >>, future |-> << >>]
    /\ lastSave = [phase |-> "none", before |-> << >>, after |-> << >>]
    /\ saves = 0

\* auth.ts lines 8-11: the auth store as constructed
AuthInit ==
    /\ auth = [user |-> NullUser, token |-> "null", isAuthenticated |-> FALSE,
               isLoading |-> FALSE]
    /\ pending = << >>
    /\ loginOutcome = [result |-> "none", alone |-> FALSE]
    /\ answered = [by |-> "none", user |-> NullUser,
                   content |-> [author_id |-> "null", author |-> "null"],
                   result |-> "undefined"]

StoreInit == EditorInit /\ AuthInit

\* the page is mounted; the recorder is not in use
Init ==
    /\ PageInit
    /\ RecorderInit
    /\ mounted = "page"
    /\ enableTranscription = FALSE
    /\ pcmCalls = << >>
    /\ StoreInit

\* lines 77-117
StartStreaming ==
    /\ transcript' = << >>
    /\ currentTurnWords' = << >>
    /\ currentTurnOrder' = -1
    /\ isStreaming' = TRUE
    /\ isPaused' = FALSE
    /\ eventSource' = "open"
    /\ handlers' = MarkStale(handlers)
    /\ streamOrder' = -1
    /\ arrived' = << >>
    /\ stopped' = FALSE
    /\ UNCHANGED <<language, delivered>>
    /\ UNCHANGED <<finalTexts, pageRest>>

\* lines 122-129; the Stop button is rendered only while isStreaming (line 612)
StopStreaming ==
    /\ isStreaming
    /\ eventSource' = "null"
    /\ isStreaming' = FALSE
    /\ isPaused' = FALSE
    /\ stopped' = TRUE
    /\ UNCHANGED <<transcript, currentTurnWords, currentTurnOrder, language,
                   handlers, streamOrder, delivered, arrived>>
    /\ UNCHANGED <<finalTexts, pageRest>>

\* lines 134-136; the Pause button is rendered only while isStreaming (line 544)
TogglePause ==
    /\ isStreaming
    /\ isPaused' = ~isPaused
    /\ UNCHANGED <<transcript, currentTurnWords, currentTurnOrder, eventSource,
                   isStreaming, language, handlers, streamOrder, delivered,
                   arrived, stopped>>
    /\ UNCHANGED <<finalTexts, pageRest>>

\* lines 141-147; the Clear button is disabled while transcript is empty (line 605)
ClearTranscript ==
    /\ Len(transcript) > 0
    /\ transcript' = << >>
    /\ currentTurnWords' = << >>
    /\ currentTurnOrder' = -1
    /\ handlers' = MarkStale(handlers)
    /\ arrived' = << >>
    /\ UNCHANGED <<eventSource, isStreaming, isPaused, language, streamOrder,
                   delivered, stopped>>
    /\ UNCHANGED <<finalTexts, pageRest>>

\* the language Select (v-model="language", line 394)
SetLanguage(l) ==
    /\ l # language
    /\ language' = l
    /\ UNCHANGED <<transcript, currentTurnWords, currentTurnOrder, eventSource,
                   isStreaming, isPaused, handlers, streamOrder, delivered,
                   arrived, stopped>>
    /\ UNCHANGED <<finalTexts, pageRest>>

\* lines 107-113: eventSource.onerror
OnError ==
    /\ eventSource = "open"
    /\ eventSource' = "null"
    /\ isStreaming' = FALSE
    /\ UNCHANGED <<transcript, currentTurnWords, currentTurnOrder, isPaused,
                   language, handlers, streamOrder, delivered, arrived, stopped>>
    /\ UNCHANGED <<finalTexts, pageRest>>

\* lines 96-106: eventSource.onmessage with a Turn message, up to the first
\* await of handleTurnEvent (or to its end); budget bounds the messages
OnMessage(data, budget) ==
    /\ eventSource = "open"
    /\ delivered < budget
    /\ delivered' = delivered + 1
    /\ streamOrder' = NextStreamOrder(streamOrder, data)
    /\ IF isPaused
       THEN UNCHANGED <<transcript, currentTurnWords, currentTurnOrder, handlers, arrived>>
       ELSE LET o == HandleTurnEvent(transcript, currentTurnWords, currentTurnOrder,
                                     arrived, data, language, handlers = << >>)
            IN  /\ transcript' = o.transcript
                /\ currentTurnWords' = o.currentTurnWords
                /\ currentTurnOrder' = o.currentTurnOrder
                /\ arrived' = o.arrived
                /\ handlers' = handlers \o o.susp
    /\ finalTexts' = finalTexts \cup {Finals(data.words)[k] : k \in 1..Len(Finals(data.words))}
    /\ UNCHANGED <<eventSource, isStreaming, isPaused, language, stopped>>
    /\ UNCHANGED pageRest

\* lines 96-106 with a handler that gives the stream up on a parse failure
OnMalformedMessageFatal(budget) ==
    /\ eventSource = "open"
    /\ delivered < budget
    /\ delivered' = delivered + 1
    /\ skipped' = IF isPaused THEN skipped ELSE skipped + 1
    /\ eventSource' = IF isPaused THEN eventSource ELSE "null"
    /\ isStreaming' = (isStreaming /\ isPaused)
    /\ UNCHANGED <<transcript, currentTurnWords, currentTurnOrder, isPaused, language,
                   handlers, streamOrder, arrived, stopped, finalTexts, mounted,
                   recorderVars, pcmCalls, storeVars>>

\* lines 96-106: eventSource.onmessage with a payload JSON.parse rejects;
\* the catch logs it (line 104), unless the page is paused (line 97)
OnMalformedMessage(budget) ==
    /\ eventSource = "open"
    /\ delivered < budget
    /\ delivered' = delivered + 1
    /\ skipped' = IF isPaused THEN skipped ELSE skipped + 1
    /\ UNCHANGED <<transcript, currentTurnWords, currentTurnOrder, eventSource,
                   isStreaming, isPaused, language, handlers, streamOrder, arrived,
                   stopped, finalTexts, mounted, recorderVars, pcmCalls, storeVars>>

\* the translate() call of suspended invocation i resolves (lines 306-324:
\* with the response text when ok, with the error string otherwise) and the
\* invocation runs on to its next await or to its end
TranslateResolves(i, ok) ==
    /\ i \in 1..Len(handlers)
    /\ LET h == handlers[i]
           o == Resume(transcript, currentTurnWords, currentTurnOrder, arrived, h,
                       TranslateResult(ok, h.text), language)
       IN  /\ transcript' = o.transcript
           /\ currentTurnWords' = o.currentTurnWords
           /\ currentTurnOrder' = o.currentTurnOrder
           /\ arrived' = o.arrived
           /\ handlers' = RemoveAt(handlers, i) \o o.susp
    /\ UNCHANGED <<eventSource, isStreaming, isPaused, language, streamOrder,
                   delivered, stopped>>
    /\ UNCHANGED <<finalTexts, pageRest>>

\* the page: every operation of the user, the stream and the translations
Next ==
    \/ StartStreaming
    \/ StopStreaming
    \/ TogglePause
    \/ ClearTranscript
    \/ OnError
    \/ \E l \in Languages : SetLanguage(l)
    \/ \E data \in TurnEventData : OnMessage(data, MaxEvents)
    \/ \E i \in 1..MaxEvents, ok \in BOOLEAN : TranslateResolves(i, ok)

Spec == Init /\ [][Next]_vars

\* one streaming session: the user starts the stream once and then only
\* changes the language
NextSession ==
    \/ ~isStreaming /\ StartStreaming
    \/ \E l \in Languages : SetLanguage(l)
    \/ \E data \in TurnEventData : OnMessage(data, MaxSessionEvents)
    \/ \E i \in 1..MaxSessionEvents, ok \in BOOLEAN : TranslateResolves(i, ok)

SpecSession == Init /\ [][NextSession]_vars

\* one streaming session in which the first translate() call that was made
\* never resolves (it stays handlers[1]); every other call resolves in the end
OthersResolve ==
    \E i \in 2..MaxSessionEvents, ok \in BOOLEAN : TranslateResolves(i, ok)

NextStuck ==
    \/ ~isStreaming /\ StartStreaming
    \/ \E data \in TurnEventData : OnMessage(data, MaxSessionEvents)
    \/ OthersResolve

SpecStuck == Init /\ [][NextStuck]_vars /\ WF_vars(OthersResolve)

\* the recorder: every operation of the user, the device and the backend
NextRecorder ==
    \/ \E granted, found \in BOOLEAN : RequestPermission(granted, found)
    \/ InitializeDevices
    \/ StartRecording
    \/ \E ok \in BOOLEAN : CreateStreamResolves(ok)
    \/ pauseRecording
    \/ resumeRecording
    \/ stopRecording
    \/ resetRecording
    \/ \E k \in Sessions : RecorderOnStop(k)
    \/ \E k \in Sessions, thenStop \in BOOLEAN : RecorderOnError(k, thenStop)
    \/ \E k \in Sessions : WsOnOpen(k)
    \/ \E k \in Sessions : WsOnError(k)
    \/ \E k \in Sessions : WsOnClose(k)
    \/ \E k \in Sessions, m \in WsMessages : WsOnMessage(k, m)
    \/ \E k \in Sessions : OnAudioProcess(k)

\* the recorder is mounted, with transcription enabled or not
InitRecorder ==
    /\ PageInit
    /\ RecorderInit
    /\ mounted = "recorder"
    /\ enableTranscription \in BOOLEAN
    /\ pcmCalls = << >>
    /\ StoreInit

SpecRecorder == InitRecorder /\ [][NextRecorder]_vars

\* the browser dispatches every stop event it has queued
StopEventsDispatched == \E k \in Sessions : RecorderOnStop(k)

SpecRecorderFair == SpecRecorder /\ WF_vars(StopEventsDispatched)

\* the capture controls and the recording clock, transcription disabled
NextClock ==
    \/ \E granted, found \in BOOLEAN : RequestPermission(granted, found)
    \/ InitializeDevices
    \/ StartRecording
    \/ \E ok \in BOOLEAN : CreateStreamResolves(ok)
    \/ pauseRecording
    \/ resumeRecording
    \/ stopRecording
    \/ \E k \in Sessions : RecorderOnStop(k)
    \/ \E k \in Sessions, thenStop \in BOOLEAN : RecorderOnError(k, thenStop)
    \/ resetRecording
    \/ TimerTick

InitClock ==
    /\ PageInit
    /\ RecorderInit
    /\ mounted = "recorder"
    /\ enableTranscription = FALSE
    /\ pcmCalls = << >>
    /\ StoreInit

SpecClock == InitClock /\ [][NextClock]_vars

\* either component, with the unparseable messages its channel can carry
NextApp ==
    \/ mounted = "page" /\ Next
    \/ mounted = "page" /\ OnMalformedMessage(MaxEvents)
    \/ mounted = "recorder" /\ NextRecorder

InitApp == Init \/ InitRecorder

SpecApp == InitApp /\ [][NextApp]_vars

\* ------------------------------------------------------------ src/lib/pcm.ts
\* a block handed to float32To16LEPCM holds at most MaxBlock samples
MaxBlock == 2
\* float32To16LEPCM is called at most MaxCalls times
MaxCalls == 2

\* a Float32Array element as the fraction n/d (d a power of two); d = 0
\* stands for the values that are no fraction: 1/0 is Infinity, -1/0 is
\* -Infinity and 0/0 is NaN
Float32(n, d) == [n |-> n, d |-> d]
NaN == Float32(0, 0)
IsNaN(x) == x.d = 0 /\ x.n = 0

\* the samples a block is built from: the values at and beyond the ends of
\* [-1, 1], zero, the smallest magnitudes, fractions whose product with the
\* scale is no integer, and the values that are no number
Samples ==
    { NaN, Float32(1, 0), Float32(-1, 0),
      Float32(-2, 1), Float32(-1, 1), Float32(-3, 4), Float32(-1, 65536),
      Float32(0, 1), Float32(1, 65536), Float32(5, 16), Float32(3, 4),
      Float32(1, 1), Float32(5, 4) }

Blocks == SeqsUpTo(Samples, MaxBlock)

\* x < y on numbers; every comparison with NaN is false
Less(x, y) ==
    /\ ~IsNaN(x) /\ ~IsNaN(y)
    /\ IF x.d = 0 THEN x.n < 0 /\ (y.d # 0 \/ y.n > 0)
       ELSE IF y.d = 0 THEN y.n > 0
       ELSE x.n * y.d < y.n * x.d

\* Math.min and Math.max: NaN when an argument is NaN
MathMin(a, b) == IF IsNaN(a) \/ IsNaN(b) THEN NaN ELSE IF Less(b, a) THEN b ELSE a
MathMax(a, b) == IF IsNaN(a) \/ IsNaN(b) THEN NaN ELSE IF Less(a, b) THEN b ELSE a

\* line 4 without the clamp
NoClamp(x) == x

\* line 4: Math.max(-1, Math.min(1, float32Array[i]))
Clamp(x) == MathMax(Float32(-1, 1), MathMin(Float32(1, 1), x))

\* the product of a number and an integer; NaN stays NaN
Times(s, k) == IF s.d = 0 THEN s ELSE Float32(s.n * k, s.d)

\* line 5 with 0x8000 for either sign
ScaleBy8000(s) == Times(s, 32768)

\* line 5: s < 0 ? s * 0x8000 : s * 0x7fff
Scale(s) == IF Less(s, Float32(0, 1)) THEN Times(s, 32768) ELSE Times(s, 32767)

\* the store into an Int16Array element (ToInt16): NaN and the infinities
\* become 0, a number is truncated towards zero and taken modulo 2^16
ToInt16(v) ==
    IF v.d = 0 THEN 0
    ELSE LET int == IF v.n >= 0 THEN v.n \div v.d ELSE -((-v.n) \div v.d)
         IN  ((int + 32768) % 65536) - 32768

\* lines 2-6: the Int16Array filled by the loop
Pcm(float32Array) ==
    [i \in 1..Len(float32Array) |-> ToInt16(Scale(Clamp(float32Array[i])))]

\* new Uint8Array(pcm): one element per element of pcm, its value modulo 256
Uint8ArrayOfElements(pcm) == [i \in 1..Len(pcm) |-> pcm[i] % 256]

\* line 7: new Uint8Array(pcm.buffer), the bytes of the buffer: two per
\* element, low byte first
Uint8ArrayOfBuffer(pcm) ==
    [b \in 1..(2 * Len(pcm)) |->
        LET u == pcm[(b + 1) \div 2] % 65536
        IN  IF b % 2 = 1 THEN u % 256 ELSE u \div 256]

\* lines 1-8
float32To16LEPCM(float32Array) == Uint8ArrayOfBuffer(Pcm(float32Array))

\* a caller hands a block to float32To16LEPCM and gets its bytes
Float32To16LEPCMCall(block) ==
    /\ Len(pcmCalls) < MaxCalls
    /\ pcmCalls' = Append(pcmCalls, [input |-> block, output |-> float32To16LEPCM(block)])
    /\ UNCHANGED <<pageVars, mounted, recorderVars, storeVars>>

NextPcm == \E block \in Blocks : Float32To16LEPCMCall(block)

\* the library alone: no component is mounted
InitPcm ==
    /\ PageInit
    /\ RecorderInit
    /\ mounted = "lib"
    /\ enableTranscription = FALSE
    /\ pcmCalls = << >>
    /\ StoreInit

SpecPcm == InitPcm /\ [][NextPcm]_vars

\* ------------------------------------- src/stores/auth.ts: the editor store
\* line 454: the number of snapshots history.past keeps
HistoryLimit == 50

\* SpecEditor: at most MaxSaves history-saving actions
MaxSaves == 3

\* the ids crypto.randomUUID hands out
BlockIds == {"b1", "b2"}

\* the values a block's content holds (Record<string, any>): a string, the
\* number NaN, and null; and its settings
ContentValues == {"p", "NaN", "null"}

SettingsValues == {"s", "t"}

\* a Block of src/types/blocks.ts
Block(id, content, settings, children) ==
    [id |-> id, content |-> content, settings |-> settings, children |-> children]

\* the blocks handed to addBlock (createBlock of useBlockRegistry.ts: a fresh
\* id, the content the caller chose, no children)
NewBlocks == {Block(id, c, "s", << >>) : id \in BlockIds, c \in {"p", "NaN"}}

\* findBlockById returns null
NoBlock == Block("null", "null", "null", << >>)

\* lines 303-312
RECURSIVE findBlockById(_, _)
findBlockById(blocks, id) ==
    IF blocks = << >> THEN NoBlock
    ELSE LET block == Head(blocks)
         IN  IF block.id = id THEN block
             ELSE LET found == findBlockById(block.children, id)
                  IN  IF found # NoBlock THEN found
                      ELSE findBlockById(Tail(blocks), id)

\* lines 314-322
RECURSIVE removeBlockById(_, _)
removeBlockById(blocks, id) ==
    IF blocks = << >> THEN << >>
    ELSE LET block == Head(blocks)
             rest == removeBlockById(Tail(blocks), id)
         IN  IF block.id = id THEN rest
             ELSE <<[block EXCEPT !.children = removeBlockById(@, id)]>> \o rest

\* lines 503-505: Array.prototype.findIndex over the root blocks, from 0;
\* -1 when there is none
findBlockIndex(blocks, blockId) ==
    IF \E i \in 1..Len(blocks) : blocks[i].id = blockId
    THEN (CHOOSE i \in 1..Len(blocks) :
              /\ blocks[i].id = blockId
              /\ \A j \in 1..(i - 1) : blocks[j].id # blockId) - 1
    ELSE -1

\* blocks.splice(index, 0, block), index counted from 0
Splice(blocks, index, block) ==
    SubSeq(blocks, 1, index) \o <<block>> \o SubSeq(blocks, index + 1, Len(blocks))

\* JSON.parse(JSON.stringify(value)) of one content or settings value:
\* JSON has no NaN, stringify writes it as null
JsonValue(value) == IF value = "NaN" THEN "null" ELSE value

\* JSON.parse(JSON.stringify(blocks)): a copy of the list, block by block
RECURSIVE JsonRoundTrip(_)
JsonRoundTrip(blocks) ==
    [i \in 1..Len(blocks) |->
        Block(blocks[i].id, JsonValue(blocks[i].content),
              JsonValue(blocks[i].settings), JsonRoundTrip(blocks[i].children))]

\* Object.assign(block.content, content) or Object.assign(block.settings,
\* settings) on the block findBlockById(blocks, id) found
RECURSIVE AssignTo(_, _, _, _)
AssignTo(blocks, id, field, value) ==
    [i \in 1..Len(blocks) |->
        IF blocks[i].id = id THEN [blocks[i] EXCEPT ![field] = value]
        ELSE [blocks[i] EXCEPT !.children = AssignTo(@, id, field, value)]]

\* saveToHistory with the test of line 454 left out
saveToHistoryKeepAll(ed) ==
    [ed EXCEPT !.past = Append(@, JsonRoundTrip(ed.blocks)), !.future = << >>]

\* lines 450-457
saveToHistory(ed) ==
    LET pushed == Append(ed.past, JsonRoundTrip(ed.blocks))
    IN  [ed EXCEPT !.past = IF Len(pushed) > HistoryLimit THEN Tail(pushed) ELSE pushed,
                   !.future = << >>]

\* lines 344, 345
canUndo == Len(editor.past) > 0

canRedo == Len(editor.future) > 0

\* a history-saving action ends with the store in `next`
Saving(next) ==
    /\ editor' = next
    /\ lastSave' = [phase |-> "acted", before |-> editor.blocks, after |-> next.blocks]
    /\ saves' = IF saves < MaxSaves THEN saves + 1 ELSE saves
    /\ UNCHANGED <<pageVars, mounted, recorderVars, pcmCalls, authVars>>

\* lines 371-381; args is << >> when the index is omitted, <<index>> otherwise.
\* The id of the block is one no block of the list has (randomUUID)
addBlock(block, args) ==
    /\ findBlockById(editor.blocks, block.id) = NoBlock
    /\ args # << >> => args[1] \in 0..Len(editor.blocks)
    /\ LET saved == saveToHistory(editor)
       IN  Saving([saved EXCEPT
                      !.blocks = IF args # << >> THEN Splice(@, args[1], block)
                                 ELSE Append(@, block),
                      !.selectedBlockId = block.id])

\* lines 387-394
removeBlock(blockId) ==
    LET saved == saveToHistory(editor)
    IN  Saving([saved EXCEPT
                   !.blocks = removeBlockById(@, blockId),
                   !.selectedBlockId = IF @ = blockId THEN "null" ELSE @])

\* lines 396-414; uuid is the id randomUUID gives the copy
duplicateBlock(blockId, uuid) ==
    LET block == findBlockById(editor.blocks, blockId)
        duplicate == [JsonRoundTrip(<<block>>)[1] EXCEPT !.id = uuid]
        index == findBlockIndex(editor.blocks, blockId)
    IN  /\ block # NoBlock
        /\ addBlock(duplicate, <<index + 1>>)

\* lines 416-427
moveBlock(blockId, direction) ==
    LET saved == saveToHistory(editor)
        index == findBlockIndex(editor.blocks, blockId)
        newIndex == IF direction = "up" THEN index - 1 ELSE index + 1
    IN  Saving(IF index = -1 \/ newIndex < 0 \/ newIndex >= Len(editor.blocks)
               THEN saved
               ELSE [saved EXCEPT
                        !.blocks = Splice(RemoveAt(@, index + 1), newIndex,
                                          editor.blocks[index + 1])])

\* lines 429-435; a call for a block that is not there returns at line 431
\* having done nothing
updateBlockContent(blockId, content) ==
    /\ findBlockById(editor.blocks, blockId) # NoBlock
    /\ LET saved == saveToHistory(editor)
       IN  Saving([saved EXCEPT !.blocks = AssignTo(@, blockId, "content", content)])

\* lines 437-443
updateBlockSettings(blockId, settings) ==
    /\ findBlockById(editor.blocks, blockId) # NoBlock
    /\ LET saved == saveToHistory(editor)
       IN  Saving([saved EXCEPT !.blocks = AssignTo(@, blockId, "settings", settings)])

\* lines 485-489
clearBlocks ==
    LET saved == saveToHistory(editor)
    IN  Saving([saved EXCEPT !.blocks = << >>, !.selectedBlockId = "null"])

\* lines 459-465; without a snapshot in past it returns at line 460
undo ==
    /\ canUndo
    /\ editor' = [blocks |-> editor.past[Len(editor.past)],
                  selectedBlockId |-> "null",
                  past |-> SubSeq(editor.past, 1, Len(editor.past) - 1),
                  future |-> <<JsonRoundTrip(editor.blocks)>> \o editor.future]
    /\ lastSave' = [lastSave EXCEPT !.phase = IF @ = "acted" THEN "undone" ELSE "none"]
    /\ UNCHANGED <<pageVars, mounted, recorderVars, pcmCalls, saves, authVars>>

\* lines 467-473; without a snapshot in future it returns at line 468
redo ==
    /\ canRedo
    /\ editor' = [blocks |-> Head(editor.future),
                  selectedBlockId |-> "null",
                  past |-> Append(editor.past, JsonRoundTrip(editor.blocks)),
                  future |-> Tail(editor.future)]
    /\ lastSave' = [lastSave EXCEPT !.phase = IF @ = "undone" THEN "redone" ELSE "none"]
    /\ UNCHANGED <<pageVars, mounted, recorderVars, pcmCalls, saves, authVars>>

\* lines 475-483
setBlocks(newBlocks) ==
    /\ editor' = [blocks |-> newBlocks, selectedBlockId |-> "null",
                  past |-> << >>, future |-> << >>]
    /\ lastSave' = [lastSave EXCEPT !.phase = "none"]
    /\ UNCHANGED <<pageVars, mounted, recorderVars, pcmCalls, saves, authVars>>

\* the editor store in use, for at most MaxSaves history-saving actions
NextEditor ==
    \/ /\ saves < MaxSaves
       /\ \E block \in NewBlocks, args \in {<< >>} \cup {<<i>> : i \in 0..Cardinality(BlockIds)} :
              addBlock(block, args)
    \/ saves < MaxSaves /\ \E blockId \in BlockIds : removeBlock(blockId)
    \/ saves < MaxSaves /\ \E blockId, uuid \in BlockIds : duplicateBlock(blockId, uuid)
    \/ /\ saves < MaxSaves
       /\ \E blockId \in BlockIds, direction \in {"up", "down"} : moveBlock(blockId, direction)
    \/ /\ saves < MaxSaves
       /\ \E blockId \in BlockIds, content \in ContentValues :
              updateBlockContent(blockId, content)
    \/ /\ saves < MaxSaves
       /\ \E blockId \in BlockIds, settings \in SettingsValues :
              updateBlockSettings(blockId, settings)
    \/ saves < MaxSaves /\ clearBlocks
    \/ undo
    \/ redo
    \/ \E newBlocks \in {<< >>, <<Block("b1", "p", "s", << >>)>>} : setBlocks(newBlocks)

InitEditor ==
    /\ PageInit
    /\ RecorderInit
    /\ mounted = "editor"
    /\ enableTranscription = FALSE
    /\ pcmCalls = << >>
    /\ StoreInit

SpecEditor == InitEditor /\ [][NextEditor]_vars

\* a long editing session on one block: it is added, moved where it cannot
\* go, and the moves are undone and redone
NextHistoryCap ==
    \/ addBlock(Block("b1", "p", "s", << >>), << >>)
    \/ editor.blocks # << >> /\ moveBlock("b1", "up")
    \/ undo
    \/ redo

SpecHistoryCap == InitEditor /\ [][NextHistoryCap]_vars

\* --------------------------------------- src/stores/auth.ts: the auth store
\* SpecAuth: at most MaxPending async actions of the store are suspended at
\* an await at once
MaxPending == 2

\* src/models/index.ts line 123
Roles == {"admin", "editor", "author", "contributor", "subscriber"}

UserIds == {"u1", "u2"}

\* the users the database can return (UserType, reduced to id and role)
Users == [id : UserIds, role : Roles]

\* line 52, line 111
TokenOf(user) == "fake-jwt-token-" \o user.id

\* an async action suspended at an await: which action, at which call, for
\* which user id; `alone` is history: the action was called on an
\* unauthenticated store with nothing pending, and no other action of the
\* store was called since
Awaiting(op, at, id, alone) == [op |-> op, at |-> at, id |-> id, alone |-> alone]

\* another action of the store is called while these are suspended
Disturbed(ps) == [i \in 1..Len(ps) |-> [ps[i] EXCEPT !.alone = FALSE]]

\* lines 123-130 applied to the store (permissions is [] throughout)
LoggedOut(a) == [a EXCEPT !.user = NullUser, !.token = "null", !.isAuthenticated = FALSE]

\* what an action of the auth store leaves alone
authRest == <<pageVars, mounted, recorderVars, pcmCalls, editorVars>>

\* lines 37-41: login up to `await User.getByEmail`
LoginCall(budget) ==
    /\ Len(pending) < budget
    /\ auth' = [auth EXCEPT !.isLoading = TRUE]
    /\ pending' = Append(Disturbed(pending),
                         Awaiting("login", "getByEmail", "null",
                                   ~auth.isAuthenticated /\ pending = << >>))
    /\ loginOutcome' = [result |-> "none", alone |-> FALSE]
    /\ UNCHANGED <<answered, authRest>>

\* lines 41-56, 61-66: getByEmail settles for the login suspended at i; it
\* rejects (ok false), or resolves with null or with the user of that email.
\* With a user login fills the store and goes on to `await updateUser`
LoginGetByEmailSettles(i, ok, foundUser) ==
    /\ i \in 1..Len(pending)
    /\ pending[i].op = "login" /\ pending[i].at = "getByEmail"
    /\ IF ok /\ foundUser # NullUser
       THEN /\ auth' = [auth EXCEPT !.user = foundUser, !.token = TokenOf(foundUser),
                                    !.isAuthenticated = TRUE]
            /\ pending' = [pending EXCEPT ![i].at = "updateUser", ![i].id = foundUser.id]
            /\ UNCHANGED loginOutcome
       ELSE /\ auth' = [auth EXCEPT !.isLoading = FALSE]
            /\ pending' = RemoveAt(pending, i)
            /\ loginOutcome' = [result |-> "threw", alone |-> pending[i].alone]
    /\ UNCHANGED <<answered, authRest>>

\* lines 151-170: updateUser(id, ...) settles; `stored` is users[0] of the
\* query of line 153, NullUser when the query finds no user; ok is false
\* when the query or the upsert rejects.  The result is the store after
\* line 162, or "throws"
UpdateUserResult(a, id, ok, stored) ==
    IF ~ok \/ stored = NullUser THEN [threw |-> TRUE, auth |-> a]
    ELSE [threw |-> FALSE,
          auth |-> IF a.user.id = id THEN [a EXCEPT !.user = stored] ELSE a]

\* lines 56-66: the updateUser awaited by the login suspended at i settles
LoginUpdateUserSettles(i, ok, stored) ==
    /\ i \in 1..Len(pending)
    /\ pending[i].op = "login" /\ pending[i].at = "updateUser"
    /\ stored = NullUser \/ stored.id = pending[i].id
    /\ LET r == UpdateUserResult(auth, pending[i].id, ok, stored)
       IN  /\ auth' = [r.auth EXCEPT !.isLoading = FALSE]
           /\ loginOutcome' = [result |-> IF r.threw THEN "threw" ELSE "returned",
                               alone |-> pending[i].alone]
    /\ pending' = RemoveAt(pending, i)
    /\ UNCHANGED <<answered, authRest>>

\* lines 69-78: register up to its first await
RegisterCall(budget) ==
    /\ Len(pending) < budget
    /\ auth' = [auth EXCEPT !.isLoading = TRUE]
    /\ pending' = Append(Disturbed(pending), Awaiting("register", "upsert", "null", FALSE))
    /\ UNCHANGED <<loginOutcome, answered, authRest>>

\* lines 78-120: the awaits of register settle (getByEmail, getByUsername,
\* upsert; nothing of the store is read or written between them); ok is
\* false when one of them rejects or finds the email or the username taken;
\* uuid is the id of line 92
RegisterSettles(i, ok, uuid) ==
    /\ i \in 1..Len(pending)
    /\ pending[i].op = "register"
    /\ LET newUser == [id |-> uuid, role |-> "subscriber"]
       IN  auth' = IF ok
                   THEN [user |-> newUser, token |-> TokenOf(newUser),
                         isAuthenticated |-> TRUE, isLoading |-> FALSE]
                   ELSE [auth EXCEPT !.isLoading = FALSE]
    /\ pending' = RemoveAt(pending, i)
    /\ UNCHANGED <<loginOutcome, answered, authRest>>

\* lines 123-130
Logout ==
    /\ auth' = LoggedOut(auth)
    /\ pending' = Disturbed(pending)
    /\ UNCHANGED <<loginOutcome, answered, authRest>>

\* lines 132-136: getCurrentUser up to `await User.query`; without a token
\* or a user it returns null at line 133
GetCurrentUserCall(budget) ==
    /\ Len(pending) < budget
    /\ auth.token # "null" /\ auth.user # NullUser
    /\ pending' = Append(Disturbed(pending),
                         Awaiting("getCurrentUser", "query", auth.user.id, FALSE))
    /\ UNCHANGED <<auth, loginOutcome, answered, authRest>>

\* lines 136-148: the query settles; `stored` is users[0], NullUser when
\* the query finds no user; ok is false when it rejects
GetCurrentUserSettles(i, ok, stored) ==
    /\ i \in 1..Len(pending)
    /\ pending[i].op = "getCurrentUser"
    /\ stored = NullUser \/ stored.id = pending[i].id
    /\ auth' = IF ok /\ stored # NullUser THEN [auth EXCEPT !.user = stored]
               ELSE LoggedOut(auth)
    /\ pending' = RemoveAt(pending, i)
    /\ UNCHANGED <<loginOutcome, answered, authRest>>

\* lines 172-176: updateProfile up to the await inside updateUser; without
\* a user it throws at line 173
UpdateProfileCall(budget) ==
    /\ Len(pending) < budget
    /\ auth.user # NullUser
    /\ pending' = Append(Disturbed(pending),
                         Awaiting("updateProfile", "updateUser", auth.user.id, FALSE))
    /\ UNCHANGED <<auth, loginOutcome, answered, authRest>>

\* lines 151-170, 175: the updateUser awaited by updateProfile settles
UpdateProfileSettles(i, ok, stored) ==
    /\ i \in 1..Len(pending)
    /\ pending[i].op = "updateProfile"
    /\ stored = NullUser \/ stored.id = pending[i].id
    /\ auth' = UpdateUserResult(auth, pending[i].id, ok, stored).auth
    /\ pending' = RemoveAt(pending, i)
    /\ UNCHANGED <<loginOutcome, answered, authRest>>

\* lines 221-236 with a session {user, token} under 'quipu-cms-auth' (with
\* nothing stored the function does nothing): the store is filled and
\* getCurrentUser is called, which suspends at line 136
InitializeAuth(budget, storedUser) ==
    /\ Len(pending) < budget
    /\ auth' = [auth EXCEPT !.user = storedUser, !.token = TokenOf(storedUser),
                            !.isAuthenticated = TRUE]
    /\ pending' = Append(Disturbed(pending),
                         Awaiting("getCurrentUser", "query", storedUser.id, FALSE))
    /\ UNCHANGED <<loginOutcome, answered, authRest>>

\* the content handed to canEdit: the plain object {author_id} the store's
\* signature asks for (line 200), which has no property `author`, or a Post
\* or Page, whose getter `author` returns author_id (models/index.ts lines
\* 47-49, 91-93)
PlainContent(authorId) == [author_id |-> authorId, author |-> "undefined"]

PostOrPage(authorId) == [author_id |-> authorId, author |-> authorId]

Contents == {PlainContent(a) : a \in UserIds} \cup {PostOrPage(a) : a \in UserIds}

\* src/models/index.ts lines 152-157: User.canEdit for the user `data`; the
\* `return false` of line 156 is the body of the `if` of line 155, and the
\* function ends without a return otherwise
UserCanEdit(data, content) ==
    IF data.role = "admin" \/ data.role = "editor" THEN "true"
    ELSE IF (data.role = "author" \/ data.role = "contributor")
               /\ content.author = data.id
         THEN "false"
         ELSE "undefined"

\* lines 200-205: canEdit of the store
canEdit(content) ==
    IF auth.user = NullUser THEN "false" ELSE UserCanEdit(auth.user, content)

\* the store's canEdit is called
CanEditCall(content) ==
    /\ answered' = [by |-> "store", user |-> auth.user, content |-> content,
                    result |-> canEdit(content)]
    /\ UNCHANGED <<auth, pending, loginOutcome, authRest>>

\* new User(data).canEdit(content) is called
UserCanEditCall(data, content) ==
    /\ answered' = [by |-> "model", user |-> data, content |-> content,
                    result |-> UserCanEdit(data, content)]
    /\ UNCHANGED <<auth, pending, loginOutcome, authRest>>

\* the auth store in use
NextAuth ==
    \/ LoginCall(MaxPending)
    \/ \E i \in 1..MaxPending, ok \in BOOLEAN, foundUser \in Users \cup {NullUser} :
           LoginGetByEmailSettles(i, ok, foundUser)
    \/ \E i \in 1..MaxPending, ok \in BOOLEAN, stored \in Users \cup {NullUser} :
           LoginUpdateUserSettles(i, ok, stored)
    \/ RegisterCall(MaxPending)
    \/ \E i \in 1..MaxPending, ok \in BOOLEAN, uuid \in UserIds : RegisterSettles(i, ok, uuid)
    \/ Logout
    \/ GetCurrentUserCall(MaxPending)
    \/ \E i \in 1..MaxPending, ok \in BOOLEAN, stored \in Users \cup {NullUser} :
           GetCurrentUserSettles(i, ok, stored)
    \/ UpdateProfileCall(MaxPending)
    \/ \E i \in 1..MaxPending, ok \in BOOLEAN, stored \in Users \cup {NullUser} :
           UpdateProfileSettles(i, ok, stored)
    \/ \E storedUser \in Users : InitializeAuth(MaxPending, storedUser)

InitAuth ==
    /\ PageInit
    /\ RecorderInit
    /\ mounted = "auth"
    /\ enableTranscription = FALSE
    /\ pcmCalls = << >>
    /\ StoreInit

SpecAuth == InitAuth /\ [][NextAuth]_vars

\* one login at a time, logout, and the permission test
NextCanEdit ==
    \/ LoginCall(1)
    \/ \E ok \in BOOLEAN, foundUser \in Users \cup {NullUser} :
           LoginGetByEmailSettles(1, ok, foundUser)
    \/ \E ok \in BOOLEAN, stored \in Users \cup {NullUser} :
           LoginUpdateUserSettles(1, ok, stored)
    \/ Logout
    \/ \E content \in Contents : CanEditCall(content)
    \/ \E data \in Users, content \in Contents : UserCanEditCall(data, content)

SpecCanEdit == InitAuth /\ [][NextCanEdit]_vars

\* ------------------------------------------------------------- properties
\* the segments of transcript pushed by invocations of the current session
Live == {i \in 1..Len(transcript) : ~transcript[i].hist.stale}

\* the stream never sent a turn_order lower than an earlier one
StreamInOrder == streamOrder # -2

Occurrences(ws, t) == Cardinality({k \in 1..Len(ws) : ws[k] = t})

\* the sequences of distinct word texts
DistinctTexts ==
    {ws \in SeqsUpTo(WordTexts, Cardinality(WordTexts)) :
        \A t \in WordTexts : Occurrences(ws, t) <= 1}

\* text is the join of distinct word texts: exactly those of arr, once each
JoinsOnce(text, arr) ==
    \E ws \in DistinctTexts :
        /\ text = Join(ws)
        /\ \A t \in WordTexts : Occurrences(ws, t) = IF Occurrences(arr, t) > 0 THEN 1 ELSE 0

\* C2 (as claimed): within one streaming session transcript never holds two
\* segments with the same turn value.
C2_OneSegmentPerTurn ==
    \A i, j \in Live : transcript[i].turn = transcript[j].turn => i = j

\* C1 (as claimed, in its most favourable case: a stream whose turn_order
\* never decreases, segments of the current session only, no turn value
\* held twice): the turn values of the segments in transcript are strictly
\* increasing from first to last.
C1_MonotonicOrdering ==
    (StreamInOrder /\ C2_OneSegmentPerTurn) =>
        \A i, j \in Live : i < j => transcript[i].turn < transcript[j].turn

C4_BoundaryByTurnJump ==
    StreamInOrder =>
        \A k \in Live :
            (transcript[k].hist.via = "jump" /\ transcript[k].hist.alone) =>
                /\ transcript[k].turn = transcript[k].hist.of_turn
                /\ \A j \in Live :
                      j < k => transcript[j].hist.of_turn # transcript[k].hist.event_turn

\* C5 (as claimed): the Segment pushed by the explicit close of an event
\* with end_of_turn carries the event's turn_order as turn, and the push
\* leaves currentTurnWords empty and currentTurnOrder at -1.
C5_ExplicitClose ==
    /\ \A k \in Live :
          transcript[k].hist.via = "final" =>
              transcript[k].turn = transcript[k].hist.event_turn
    /\ (currentTurnOrder = -1 => currentTurnWords = << >>)

\* the event that closes turn t with end_of_turn has arrived, and its
\* invocation waits for the translation of the previous turn's segment
ClosedBehindTranslation(t) ==
    \E i \in 1..Len(handlers) :
        /\ handlers[i].pc = "jump"
        /\ handlers[i].data.turn_order = t
        /\ handlers[i].data.end_of_turn
        /\ Finals(handlers[i].data.words) # << >>

\* transcript holds a segment made of turn t's words, or one with turn t
HasSegmentOf(t) ==
    \E k \in 1..Len(transcript) :
        transcript[k].hist.of_turn = t \/ transcript[k].turn = t

\* C6 (as claimed, checked on SpecStuck, where one translate call never
\* resolves and every other one does): every turn closed by end_of_turn
\* eventually has its Segment in transcript.
C6_PendingTranslationNeverBlocks ==
    \A t \in Turns : ClosedBehindTranslation(t) ~> HasSegmentOf(t)

\* C7 (as claimed): handleTurnEvent invocations run to completion one after
\* the other: an event is only taken up when no earlier invocation is
\* suspended in the middle of its update.
C7_RunToCompletion ==
    [][(delivered' = delivered + 1 /\ ~isPaused) => handlers = << >>]_vars

\* C8 (as claimed): a translated_text, once a segment of transcript has one,
\* never changes while the segment is in transcript; and a translation
\* response that arrives for a turn of which transcript already holds a
\* translated segment is ignored, it adds nothing to transcript.
C8_TranslatedTextSingleAssignment ==
    [][/\ \A i \in 1..Len(transcript) :
             transcript[i].translated_text.kind # "undefined" =>
                 \/ transcript' = << >>
                 \/ /\ Len(transcript') >= i
                    /\ transcript'[i].translated_text = transcript[i].translated_text
       /\ (delivered' = delivered /\ Len(transcript') > Len(transcript)) =>
             LET new == transcript'[Len(transcript) + 1]
             IN  \A i \in Live :
                     (/\ ~new.hist.stale
                      /\ transcript[i].hist.of_turn = new.hist.of_turn
                      /\ transcript[i].translated_text.kind # "undefined")
                     => new.translated_text.kind = "undefined"
      ]_vars

\* C9 (as claimed): once stopStreaming has returned, and until the next
\* startStreaming, transcript, currentTurnWords and currentTurnOrder do not
\* change (other than by the user clearing the transcript).
C9_FrozenAfterStop ==
    [][(stopped /\ stopped') =>
          \/ aggregator' = aggregator
          \/ aggregator' = <<<< >>, << >>, -1>>
      ]_vars

\* C10 (as claimed): transcript never holds a segment pushed by an
\* invocation that started before the last reset (clearTranscript, or the
\* reset of startStreaming).
C10_ResetDiscardsOldResults ==
    \A i \in 1..Len(transcript) : ~transcript[i].hist.stale

\* C11 (as claimed): a segment whose translation request failed stays
\* untranslated: no segment of transcript carries a translated_text that
\* comes from a failed request.
C11_FailedTranslationLeavesUntranslated ==
    \A i \in 1..Len(transcript) : transcript[i].translated_text.kind # "error"

\* C12 (as claimed): every word held in durable state was received as a
\* final word at least once: the texts in currentTurnWords, the texts joined
\* into a Segment's text, and the words stored in a Segment's words.
C12_ProvisionalNeverStored ==
    /\ \A k \in 1..Len(currentTurnWords) : currentTurnWords[k] \in finalTexts
    /\ \A i \in 1..Len(transcript) :
          /\ \E ws \in DistinctTexts :
                /\ transcript[i].text = Join(ws)
                /\ \A k \in 1..Len(ws) : ws[k] \in finalTexts
          /\ \A k \in 1..Len(transcript[i].words) :
                transcript[i].words[k].text \in finalTexts

\* C13: an audio frame produced while the channel is not open (no socket,
\* or a socket that is connecting, closing or closed) is dropped and never
\* transmitted: every transmitted frame was produced on an open socket, no
\* dropped frame is ever among the transmitted ones, and every frame
\* produced is either transmitted at once or dropped.
C13_DropOnClosed ==
    /\ \A i \in 1..Len(sent) :
          /\ sent[i].readyState = "open"
          /\ sent[i].socket # 0
          /\ sent[i].id \notin dropped
    /\ Len(sent) + Cardinality(dropped) = produced

\* C13 witness: a frame was dropped on a socket that was not open, and a
\* later frame was transmitted
C13_Witness ==
    \E d \in dropped, i \in 1..Len(sent) : sent[i].id > d

\* C14: an unparseable inbound message is reported and skipped: the step
\* in which the page or the recorder reports it leaves the channel, the
\* aggregator state and every other ref as they were, so the channel is
\* still open and later events are handled from an unchanged state.
C14_MalformedSkipped ==
    [][/\ skipped' # skipped =>
             /\ eventSource' = "open"
             /\ UNCHANGED <<aggregator, handlers, isStreaming, isPaused, arrived>>
       /\ (/\ emitted' # emitted
           /\ emitted' = "transcriptionError: Failed to parse transcription response") =>
             /\ UNCHANGED <<refs, browser, starting, sent, dropped>>
             /\ \E k \in Sessions : browser'.socket[k] = "open"
      ]_vars

\* C14 witness: the page skipped an unparseable message, its stream is still
\* open and it holds a segment
C14_Witness ==
    skipped > 0 /\ eventSource = "open" /\ Len(transcript) > 0 /\ delivered = MaxEvents

\* C16: a failed connection ends closed and is never reopened by the
\* component: a socket that is closing or closed stays so, a socket is only
\* created by a startRecording call that got its stream, a WebSocket error
\* is emitted and leaves no socket connecting or open that was so before;
\* the EventSource, once dropped, leaves the page not streaming and is only
\* opened again by startStreaming (which resets the transcript state).
C16_NoAutomaticReconnect ==
    [][/\ \A k \in Sessions :
             /\ browser.socket[k] \in {"closing", "closed"} =>
                    browser'.socket[k] \in {"closing", "closed"}
             /\ (browser.socket[k] = "none" /\ browser'.socket[k] # "none") =>
                    /\ browser'.socket[k] = "connecting"
                    /\ starting' = starting - 1
                    /\ browser'.created = k
       /\ (/\ emitted' # emitted
           /\ emitted' = "transcriptionError: WebSocket connection error") =>
             \E k \in Sessions :
                 /\ browser.socket[k] \in {"connecting", "open"}
                 /\ browser'.socket[k] = "closed"
       /\ (eventSource = "open" /\ eventSource' = "null") => ~isStreaming'
       /\ (eventSource = "null" /\ eventSource' = "open") =>
             /\ isStreaming' /\ ~stopped'
             /\ aggregator' = <<<< >>, << >>, -1>>
      ]_vars

\* C16 witness: the WebSocket held by the recorder failed and is closed
C16_Witness ==
    /\ emitted = "transcriptionError: WebSocket connection error"
    /\ refs.websocket # 0
    /\ browser.socket[refs.websocket] = "closed"

\* C15: closeWebSocket sends the stop message at most once per channel and
\* is idempotent: no socket ever got more than one stop message; a call with
\* a channel held sends stop exactly if the socket is open, leaves the socket
\* closing or closed and the ref cleared; a call right after it, and any call
\* with no channel held, changes nothing.
C15_CloseWebSocketIdempotent ==
    LET st == St(refs, browser)
        once == closeWebSocket(st)
        k == refs.websocket
    IN  /\ \A j \in Sessions : browser.stops[j] <= 1
        /\ closeWebSocket(once) = once
        /\ k = 0 => once = st
        /\ k # 0 =>
              /\ once.browser.stops[k] =
                     browser.stops[k] + (IF browser.socket[k] = "open" THEN 1 ELSE 0)
              /\ once.browser.stops[k] <= 1
              /\ once.browser.socket[k] \in {"closing", "closed"}
              /\ once.refs.websocket = 0

\* C15 witness: stopRecording sent stop on an open channel and closed it,
\* and the cleanup of the recorder's stop callback has run after it
C15_Witness ==
    \E k \in Sessions :
        /\ browser.stops[k] = 1
        /\ browser.stopRequested[k]
        /\ ~browser.stopEvent[k]
        /\ browser.stream[k] = "stopped"

\* C17 (as claimed): isRecording and isPaused are never both true; a
\* recording is started only with permission, a selected device and neither
\* flag set; a pause takes effect only while capturing (isRecording, not
\* isPaused), a resume only while paused, a stop only while capturing or
\* paused.
C17_CaptureStateMachine ==
    [][/\ ~(refs'.isRecording /\ refs'.isPaused)
       /\ browser'.created # browser.created => canRecord(refs)
       /\ (~refs.isPaused /\ refs'.isPaused) => (refs.isRecording /\ ~refs.isPaused)
       /\ (refs.isPaused /\ ~refs'.isPaused /\ refs'.isRecording) => ~refs.isRecording
       /\ browser'.stopRequested # browser.stopRequested => canStop(refs)
      ]_vars

\* C18: a session that stopRecording has stopped never captures again: its
\* MediaRecorder stays inactive, and while the component still holds it the
\* flags show neither Capturing nor Paused.
C18_StoppedIsTerminal ==
    \A k \in Sessions :
        browser.stopRequested[k] =>
            /\ browser.recorder[k] = "inactive"
            /\ refs.recorder = k => (~refs.isRecording /\ ~refs.isPaused)

\* C18 witness: session 1 was stopped by stopRecording and startRecording
\* was used again: a second session is capturing
C18_Witness ==
    /\ browser.stopRequested[1]
    /\ browser.recorder[1] = "inactive"
    /\ browser.recorder[2] = "recording"
    /\ refs.isRecording

\* session k holds no resource: its microphone stream is not live, its
\* socket is neither connecting nor open, its processor is not connected
Released(k) ==
    /\ browser.stream[k] # "live"
    /\ browser.socket[k] \notin {"connecting", "open"}
    /\ browser.processor[k] # "connected"

\* C19 (as claimed, the browser dispatching every queued stop event): once
\* stopRecording has stopped session k, there comes a moment at which the
\* session holds no resources.
C19_StopReleasesResources ==
    \A k \in Sessions : browser.stopRequested[k] ~> Released(k)

\* C20 (as claimed): when the recorder the component is capturing with
\* fails and its error callback has run, the error is emitted, isRecording
\* and isPaused are both false, and the stream and the channel are released.
C20_DeviceErrorForcesStopped ==
    [][(/\ refs.isRecording
        /\ refs.recorder # 0
        /\ browser.recorder[refs.recorder] = "recording"
        /\ browser'.recorder[refs.recorder] = "inactive"
        /\ emitted' # emitted
        /\ emitted' = "error: Recording error") =>
          /\ ~refs'.isRecording
          /\ ~refs'.isPaused
          /\ refs'.stream = 0
          /\ refs'.websocket = 0
      ]_vars

C22_AtMostOneCapture ==
    /\ Cardinality({k \in Sessions : browser.stream[k] = "live"}) <= 1
    /\ Cardinality({k \in Sessions : browser.recorder[k] \in {"recording", "paused"}}) <= 1
    /\ Cardinality({k \in Sessions : browser.socket[k] \in {"connecting", "open"}}) <= 1
    /\ browser.timers <= 1

\* the signed 16-bit sample held by bytes 2i-1 and 2i, low byte first
Int16At(bytes, i) ==
    LET u == bytes[2 * i - 1] + 256 * bytes[2 * i]
    IN  IF u >= 32768 THEN u - 65536 ELSE u

\* x <= y on numbers
LessEq(x, y) == ~IsNaN(x) /\ ~IsNaN(y) /\ ~Less(y, x)

Abs(i) == IF i < 0 THEN -i ELSE i

\* C23: every call of float32To16LEPCM returns exactly two bytes per sample
\* of its input, the empty block included, and two calls with the same input
\* return the same bytes whatever was encoded in between
C23_StatelessTwoBytesPerSample ==
    \A i \in 1..Len(pcmCalls) :
        /\ Len(pcmCalls[i].output) = 2 * Len(pcmCalls[i].input)
        /\ \A j \in 1..Len(pcmCalls) :
               pcmCalls[i].input = pcmCalls[j].input
                   => pcmCalls[i].output = pcmCalls[j].output

\* the same full block was encoded twice
C23_Witness ==
    /\ Len(pcmCalls) = 2
    /\ pcmCalls[1].input = pcmCalls[2].input
    /\ Len(pcmCalls[2].input) = MaxBlock
    /\ Len(pcmCalls[2].output) = 2 * MaxBlock

\* C24: every sample is clamped to [-1, 1] and scaled by 32768 when negative
\* and by 32767 otherwise, without wrap-around: a sample <= -1 encodes to
\* -32768, a sample >= 1 to 32767, 0 to 0, a sample in between to its
\* product with the scale truncated towards zero, and a sample that is not
\* below another one never encodes below it
C24_ClampScaleMonotonic ==
    \A c \in 1..Len(pcmCalls) :
        \A i \in 1..Len(pcmCalls[c].input) :
            LET x == pcmCalls[c].input[i]
                v == Int16At(pcmCalls[c].output, i)
            IN  /\ v \in -32768..32767
                /\ LessEq(x, Float32(-1, 1)) => v = -32768
                /\ LessEq(Float32(1, 1), x) => v = 32767
                /\ (x.d # 0 /\ x.n = 0) => v = 0
                /\ (Less(Float32(-1, 1), x) /\ Less(x, Float32(0, 1)))
                       => v = -(((-x.n) * 32768) \div x.d)
                /\ (Less(Float32(0, 1), x) /\ Less(x, Float32(1, 1)))
                       => v = (x.n * 32767) \div x.d
                /\ \A j \in 1..Len(pcmCalls[c].input) :
                       LessEq(x, pcmCalls[c].input[j])
                           => v <= Int16At(pcmCalls[c].output, j)

\* a block with a sample above 1 and a sample below -1 was encoded
C24_Witness ==
    \E c \in 1..Len(pcmCalls) :
        /\ Len(pcmCalls[c].input) = 2
        /\ Less(Float32(1, 1), pcmCalls[c].input[1])
        /\ Less(pcmCalls[c].input[2], Float32(-1, 1))
        /\ Int16At(pcmCalls[c].output, 1) = 32767
        /\ Int16At(pcmCalls[c].output, 2) = -32768

\* C25: for a sample n/d in [-1, 1], the encoded value v decoded as v/32768
\* when negative and v/32767 otherwise is within 1/32767 of the sample
\* (the inequality multiplied out over the integers)
C25_RoundTripWithinOneStep ==
    \A c \in 1..Len(pcmCalls) :
        \A i \in 1..Len(pcmCalls[c].input) :
            LET x == pcmCalls[c].input[i]
                v == Int16At(pcmCalls[c].output, i)
            IN  (LessEq(Float32(-1, 1), x) /\ LessEq(x, Float32(1, 1)))
                    => IF v < 0
                       THEN Abs(x.n * 32768 - v * x.d) <= x.d + (x.d \div 32767)
                       ELSE Abs(x.n * 32767 - v * x.d) <= x.d

\* a sample whose product with the scale is no integer was encoded, and so
\* were both ends of the range
C25_Witness ==
    /\ Len(pcmCalls) = 2
    /\ pcmCalls[1].input = <<Float32(5, 16), Float32(-1, 65536)>>
    /\ Int16At(pcmCalls[1].output, 1) = 10239
    /\ pcmCalls[2].input = <<Float32(1, 1), Float32(-1, 1)>>
    /\ Int16At(pcmCalls[2].output, 1) = 32767

\* C26: the recording clock stops on pause and goes on after resume:
\* recordingTime does not advance while the session is paused, and while a
\* session is on (recording or paused, its stream held, no other capture
\* begun) recordingTime never decreases
C26_ClockNeverDecreases ==
    [][/\ (refs.isPaused /\ ~refs.isRecording /\ refs'.isPaused /\ ~refs'.isRecording)
            => refs'.recordingTime = refs.recordingTime
       /\ (/\ canStop(refs) /\ canStop(refs')
           /\ refs.stream # 0 /\ refs'.stream = refs.stream
           /\ browser'.created = browser.created)
            => refs'.recordingTime >= refs.recordingTime]_vars

\* C27: while the session is paused no audio frame is sent on the channel,
\* and pausing releases no device: the step that pauses leaves every stream
\* as it is
C27_NoFrameWhilePaused ==
    [][/\ (refs.isPaused /\ ~refs.isRecording) => sent' = sent
       /\ (~refs.isPaused /\ refs'.isPaused) => browser'.stream = browser.stream]_vars

\* a reset (startStreaming, clearTranscript) empties the three refs
IsReset ==
    transcript' = << >> /\ currentTurnWords' = << >> /\ currentTurnOrder' = -1

\* transcript keeps every segment it has, each at its position, and gets at
\* most n new ones at the end
AppendsAtMost(n) ==
    /\ Len(transcript') - Len(transcript) \in 0..n
    /\ SubSeq(transcript', 1, Len(transcript)) = transcript

\* C28 as stated: between resets every step leaves transcript unchanged or
\* adds one Segment at its end, and no existing Segment changes or moves
C28_AppendsOneSegmentPerStep == [][IsReset \/ AppendsAtMost(1)]_vars

\* C28: between resets transcript is append-only: every step leaves it
\* unchanged or adds one or two Segments at its end (two when one event
\* closes the open turn by its turn_order and its own turn by end_of_turn);
\* no existing Segment changes or moves, whatever the order in which the
\* pending translations complete
C28_AppendOnly == [][IsReset \/ AppendsAtMost(2)]_vars

\* two translations completed in the reverse order of their events: the
\* segment of the later event was pushed first and stayed first
C28_Witness ==
    /\ Len(transcript) = 2
    /\ ~transcript[1].hist.alone /\ transcript[2].hist.alone
    /\ transcript[1].translated_text.kind = "translated"
    /\ transcript[2].translated_text.kind = "translated"
    /\ ~transcript[1].hist.stale /\ ~transcript[2].hist.stale

\* C29: a message of the open turn without end_of_turn whose final words are
\* all in currentTurnWords already (or which has none) leaves transcript,
\* currentTurnWords and currentTurnOrder as they are and suspends nothing
C29_SeenWordsAreNoOp ==
    [][\A data \in TurnEventData :
           (/\ data.turn_order = currentTurnOrder
            /\ ~data.end_of_turn
            /\ \A i \in 1..Len(data.words) :
                   data.words[i].word_is_final
                       => Includes(currentTurnWords, data.words[i].text)
            /\ ~isPaused
            /\ OnMessage(data, MaxEvents))
               => aggregator' = aggregator /\ handlers' = handlers]_vars

\* a final word came again for the open turn, which is still open with the
\* word held once and nothing pushed
C29_Witness ==
    /\ currentTurnOrder \in Turns
    /\ Len(arrived) > Len(currentTurnWords)
    /\ Len(currentTurnWords) > 0
    /\ transcript = << >> /\ handlers = << >>
    /\ delivered = Len(arrived)

\* the distinct texts of arr in the order of their first occurrence
FirstArrivals(arr) ==
    LET RECURSIVE go(_, _)
        go(acc, i) ==
            IF i > Len(arr) THEN acc
            ELSE go(IF Includes(acc, arr[i]) THEN acc ELSE Append(acc, arr[i]), i + 1)
    IN  go(<< >>, 1)

\* C30: the text of every Segment of the session is the distinct final word
\* texts that arrived for its turn, in order of first arrival, joined by
\* single spaces: the words joined are those of the turn the Segment is
\* labelled with, not of an earlier or later one
C30_TextIsItsTurnsWords ==
    \A k \in Live :
        /\ transcript[k].text = Join(FirstArrivals(transcript[k].hist.arrived))
        /\ transcript[k].turn = transcript[k].hist.of_turn

\* the texts of a words list, in order
TextsOf(ws) == [i \in 1..Len(ws) |-> ws[i].text]

\* C31: the words of every Segment of the session hold no text twice and
\* are the deduplicated final words of its turn (the texts its text is
\* joined from), for a Segment closed by end_of_turn and for one closed by a
\* turn_order jump
C31_WordsAreTurnsFinalWords ==
    \A k \in Live :
        LET ws == transcript[k].words
        IN  /\ \A i, j \in 1..Len(ws) : ws[i].text = ws[j].text => i = j
            /\ \A i \in 1..Len(ws) : ws[i].word_is_final
            /\ TextsOf(ws) = FirstArrivals(transcript[k].hist.arrived)

\* C33: whenever a translation request is in flight, the Segment it belongs
\* to is in transcript already, with its translated_text still unset
C33_TranslationAfterAppend ==
    \A i \in 1..Len(handlers) :
        ~handlers[i].hist.stale =>
            \E k \in 1..Len(transcript) :
                /\ transcript[k].text = handlers[i].text
                /\ transcript[k].translated_text = Undefined

\* C34: every Segment of the session carries as turn the turn_order of the
\* events its text was accumulated from; no Segment has turn -1
C34_TurnIsTheWordsTurn ==
    \A k \in Live :
        /\ transcript[k].turn # -1
        /\ transcript[k].turn \in Turns
        /\ transcript[k].hist.of_turn = transcript[k].turn

\* the fraction a lies between the least and the greatest confidence of the
\* words with the texts ts, as every average over such words does
BetweenConfidencesOf(a, ts) ==
    /\ \E i \in 1..Len(ts) : Confidence(ts[i]) * a.den <= a.num
    /\ \E i \in 1..Len(ts) : a.num <= Confidence(ts[i]) * a.den

\* C32: the confidence of a Segment of the session is an average over words
\* of its own turn: for an explicit close the average over the closing
\* event's words, for an implicit close a value between the least and the
\* greatest confidence of the words its text is joined from, whatever the
\* words of the event that opened the next turn
C32_ConfidenceOfOwnTurn ==
    \A k \in Live :
        IF transcript[k].hist.via = "final"
        THEN transcript[k].confidence = AvgConfidence(transcript[k].words)
        ELSE BetweenConfidencesOf(transcript[k].confidence,
                                  FirstArrivals(transcript[k].hist.arrived))

\* C35: in the editor store, undo() directly after a history-saving action
\* (addBlock, removeBlock, moveBlock, updateBlockContent, updateBlockSettings,
\* clearBlocks) leaves blocks with exactly the value they had before that
\* action, and redo() directly after that undo() leaves them with the value
\* the action had produced
C35_UndoRedoRestore ==
    /\ lastSave.phase = "undone" => editor.blocks = lastSave.before
    /\ lastSave.phase = "redone" => editor.blocks = lastSave.after

\* C36: history.past never holds more than 50 snapshots, whatever the
\* sequence of actions, undo and redo
C36_PastAtMostFifty == Len(editor.past) <= HistoryLimit

\* C36: a snapshot was added to a full history.past and the oldest one, the
\* empty list saved by the first action, was dropped
C36_Witness ==
    /\ Len(editor.past) = HistoryLimit
    /\ editor.past[1] # << >>

\* C37: an action that does not change the block list (moveBlock of an
\* unknown block or past the first or last position, removeBlock of an
\* unknown id) leaves history.past and history.future as they were
C37_NoChangeNoHistory ==
    [][\A blockId \in BlockIds :
          /\ \A direction \in {"up", "down"} :
                 (moveBlock(blockId, direction) /\ editor'.blocks = editor.blocks)
                     => (editor'.past = editor.past /\ editor'.future = editor.future)
          /\ (removeBlock(blockId) /\ editor'.blocks = editor.blocks)
                 => (editor'.past = editor.past /\ editor'.future = editor.future)]_vars

\* C38: a login that rejects leaves the auth store unauthenticated: when a
\* login called on the unauthenticated store, with no other action of the
\* store under way, throws (unknown email, or a failure of the last-login
\* update), then isAuthenticated is false and user and token are null; and
\* in every reachable state isAuthenticated implies that user and token are
\* both non-null
C38_RejectedLoginUnauthenticated ==
    /\ [][(/\ loginOutcome' # loginOutcome
           /\ loginOutcome'.result = "threw"
           /\ loginOutcome'.alone)
              => (/\ ~auth'.isAuthenticated
                  /\ auth'.user = NullUser
                  /\ auth'.token = "null")]_vars
    /\ [](auth.isAuthenticated => (auth.user # NullUser /\ auth.token # "null"))

\* what C39 says canEdit returns for a user and a content
SaysCanEdit(data, content) ==
    IF data.role \in {"admin", "editor"} THEN "true"
    ELSE IF data.role \in {"author", "contributor"} /\ content.author_id = data.id
         THEN "true"
         ELSE "false"

\* C39: User.canEdit returns true for every admin or editor, true for an
\* author or contributor exactly when the content's author is that user, and
\* false for every other combination of role and content
C39_CanEditByRoleAndAuthor ==
    (answered.by # "none" /\ answered.user # NullUser)
        => answered.result = SaysCanEdit(answered.user, answered.content)
=============================================================================
